---- MODULE Spec2Model ----
(***************************************************************************)
(* Synchronous file-like wrappers of zebrastream.io (file.py): the         *)
(* lifecycle of a Reader/Writer handle (_SyncWrapperBase), its blocking    *)
(* portal, the wrapped asynchronous stream object, the class-level         *)
(* registry _instances with its lock, and the atexit sweep.                *)
(*                                                                         *)
(* Calling threads run the methods of file.py statement by statement; a    *)
(* statement that only touches the thread's own locals is folded into the  *)
(* neighbouring step.  A call through the portal (_call_async) is a task   *)
(* handed to the handle's event loop: the loop starts the tasks in the     *)
(* order they were handed in, and a coroutine of the wrapped object runs   *)
(* from LoopBegin to LoopEnd (it awaits network I/O in between).           *)
(***************************************************************************)
EXTENDS Integers, Sequences, FiniteSets, TLC

\* Calls user code issues in one run (constructors, read/write/flush, close,
\* with blocks left), over all threads.
MaxOps == 2
\* The same, in the runs that end with the interpreter's exit.
MaxExitOps == 1
\* The same, in the runs of the main thread alone on an open Writer and an
\* open Reader.
MaxSeqOps == 3

Handles == {"h1", "h2"}
Threads == {"t1", "t2"}
\* "atexit" runs _cleanup_all_instances, "gc" runs __del__.
Procs == Threads \cup {"atexit", "gc"}
NoProc == "none"
\* h1 is a Writer, h2 a Reader (Writer.__init__, Reader.__init__).
Mode(h) == IF h = "h1" THEN "wb" ELSE "rb"
ReadSizes == {-1, 0, 1, 2}
\* The payloads of write.
Data == {1, 2}
\* What a remote stream may hold: the blocks it will deliver.
Scripts == {<<>>, <<<<1, 2>>>>, <<<<1>>, <<2>>>>}
\* ... and what the stream of a Reader built while several threads are at
\* work may hold.
BasicScripts == {<<>>, <<<<1, 2>>>>}
\* The arguments user code passes while several threads are at work: one
\* payload, and no read of more than one byte.
BasicArgs == {-1, 0, 1}
\* ... and while the interpreter exits: write(1) and read(1).
ExitArgs == {1}
BlockExcs == {"none", "BlockError"}

VARIABLES
    instances,   \* _SyncWrapperBase._instances
    lock,        \* holder of _SyncWrapperBase._instances_lock, or NoProc
    isOpen,      \* h -> self._is_open
    hasPortal,   \* h -> hasattr(self, "_blocking_portal")
    hasCm,       \* h -> hasattr(self, "_blocking_portal_cm")
    hasAsync,    \* h -> hasattr(self, "_async_instance")
    portal,      \* h -> state of the portal's event loop thread
    prim,        \* h -> state of the wrapped async object
    life,        \* h -> where the Python object is in its life
    queue,       \* h -> tasks handed to the loop and not yet started
    active,      \* h -> tasks started on the loop and not yet finished
    startCalls,  \* h -> calls of the wrapped object's start()
    stopCalls,   \* h -> calls of the wrapped object's stop()
    exitCalls,   \* h -> portal shutdowns begun by __exit__
    pc,          \* p -> statement the thread is at
    hnd,         \* p -> self
    loc,         \* p -> the locals of the call in progress:
                 \*      ctx    what is running: "ctor", "op", or what called close():
                 \*             "user", "exit", "del", "sweep"
                 \*      site   the callable handed to _call_async
                 \*      ret    outcome of the task, read when _call_async returns
                 \*      errors the local list errors of close/_cleanup_on_error
                 \*      exc    the exception the except clause of __init__ handles
                 \*      arg    size of a read, payload of a write
                 \*      val    the bytes a read task returned
    res,         \* p -> what the last finished call returned or raised
    op,          \* p -> the last call the thread issued
    blockExc,    \* p -> exc_type handed to __exit__ by the last with block
    ops,         \* calls user code may still issue
    todo,        \* the sweep's local list instances, not yet visited
    everOpen,    \* h -> the constructor returned normally
    userClosed,  \* h -> user code called close() or left a with block
    sweepOpen,   \* the handles that were open when the sweep took its snapshot
    plog,        \* h -> the calls the wrapped object has received, in order
    stream,      \* h -> what the remote stream of a Reader still holds, in blocks
    total,       \* h -> what the remote stream held when the Reader started
    eaten,       \* h -> the bytes the reads of h have returned so far
    got,         \* p -> the bytes the last read of the thread returned
    calls        \* h -> the calls the main thread has issued on h since it was
                 \*      built (empty once another thread has issued a call)

hvars == <<isOpen, hasPortal, hasCm, hasAsync, portal, prim, life>>
rvars == <<instances, lock>>
lvars == <<queue, active>>
cvars == <<startCalls, stopCalls, exitCalls>>
tvars == <<pc, hnd, loc, res, op, blockExc, ops>>
gvars == <<todo, everOpen, userClosed, sweepOpen>>
dvars == <<plog, stream, total, eaten, got, calls>>
vars == <<hvars, rvars, lvars, cvars, tvars, gvars, dvars>>

\* The locals of a thread that is not inside a call.
Blank == [ctx |-> "none", site |-> "none", ret |-> "none", errors |-> <<>>,
          exc |-> "none", arg |-> 0, val |-> <<>>]

\* The handles of S have been constructed by the main thread, their
\* constructors have returned, and nothing else has happened: the states
\* CtorBegin ... CallRet lead to when no step fails.  S = {} is the state
\* before any constructor call.  User code issues at most n calls from here on.
Start(S, n) ==
    /\ instances = S
    /\ lock = NoProc
    /\ isOpen = [h \in Handles |-> h \in S]
    /\ hasPortal = [h \in Handles |-> h \in S]
    /\ hasCm = [h \in Handles |-> h \in S]
    /\ hasAsync = [h \in Handles |-> h \in S]
    /\ portal = [h \in Handles |-> IF h \in S THEN "running" ELSE "none"]
    /\ prim = [h \in Handles |-> IF h \in S THEN "started" ELSE "none"]
    /\ life = [h \in Handles |-> IF h \in S THEN "live" ELSE "none"]
    /\ queue = [h \in Handles |-> <<>>]
    /\ active = [h \in Handles |-> {}]
    /\ startCalls = [h \in Handles |-> IF h \in S THEN 1 ELSE 0]
    /\ stopCalls = [h \in Handles |-> 0]
    /\ exitCalls = [h \in Handles |-> 0]
    /\ pc = [p \in Procs |-> "idle"]
    /\ hnd = [p \in Procs |-> "h1"]
    /\ loc = [p \in Procs |-> Blank]
    /\ res = [p \in Procs |-> IF p = "t1" /\ S # {} THEN "ok" ELSE "none"]
    /\ op = [p \in Procs |-> IF p = "t1" /\ S # {} THEN "ctor" ELSE "none"]
    /\ blockExc = [p \in Procs |-> "none"]
    /\ ops = n
    /\ todo = {}
    /\ everOpen = [h \in Handles |-> h \in S]
    /\ userClosed = [h \in Handles |-> FALSE]
    /\ sweepOpen = {}
    /\ plog = [h \in Handles |->
                 IF h \in S THEN <<<<"factory", 0>>, <<"start", 0>>>> ELSE <<>>]
    /\ stream \in [Handles -> Scripts]
    /\ \A h \in Handles : (h \notin S \/ Mode(h) # "rb") => stream[h] = <<>>
    /\ total = stream
    /\ eaten = [h \in Handles |-> <<>>]
    /\ got = [p \in Procs |-> <<>>]
    /\ calls = [h \in Handles |-> <<>>]

\* User code at work: nothing constructed yet, or the Writer open.
Init == \E S \in {{}, {"h1"}} : Start(S, MaxOps)

\* The same, for the runs that end with the interpreter's exit.
InitExit == \E S \in {{}, {"h1"}} : Start(S, MaxExitOps)

\* The Writer and the Reader open, the Reader on any stream of Scripts.
InitSeq == Start(Handles, MaxSeqOps)

----
\* Between registering itself (line 47) and returning or raising, __init__ and
\* _cleanup_on_error touch only the new object, its own portal and its own
\* wrapped object: no other thread has a reference to it, and the sweep leaves
\* it alone while _is_open is False.  These steps commute with the steps of
\* every other thread, so they are run without interleaving.
InCtorBody(t) == loc[t].ctx = "ctor" /\ pc[t] \notin {"reg_lock", "reg_add"}

\* Process p may take a step.
May(p) == \A t \in Threads \ {p} : ~InCtorBody(t)

\* The event loop of handle h may take a step.
MayLoop(h) == \A t \in Threads : InCtorBody(t) => hnd[t] = h

\* User code on thread t is between two calls and may issue another one.  t1 is
\* the main thread: it has issued the first call, and the atexit handlers run
\* on it once it has finished, so it issues nothing after the sweep started.
\* t2 is a daemon thread, which goes on running during the handlers, and it
\* issues nothing any more once the interpreter is being finalized.  (As long
\* as the main thread can issue calls, t2 issues none before it.)
Idle(t) ==
    /\ pc[t] = "idle"
    /\ May(t)
    /\ ops > 0
    /\ (t = "t1" => op["atexit"] = "none")
    /\ (t = "t2" => (op["t1"] # "none" \/ op["atexit"] # "none")
                      /\ op["atexit"] # "final")

\* Thread t issues the call o(a) on handle h (b: the exception of the with
\* block that ends, for __exit__).  The calls on a handle are kept as long as
\* the main thread is the only one that has issued any.
Issue(t, h, o, a, b) ==
    /\ hnd' = [hnd EXCEPT ![t] = h]
    /\ op' = [op EXCEPT ![t] = o]
    /\ blockExc' = [blockExc EXCEPT ![t] = b]
    /\ ops' = ops - 1
    /\ calls' = IF t # "t1" \/ op["t2"] # "none" THEN [x \in Handles |-> <<>>]
                ELSE IF o = "ctor" THEN calls
                ELSE [calls EXCEPT ![h] = Append(@, <<o, a>>)]

\* The call of thread t is over: it returned or raised r.
Finish(t, r) ==
    /\ pc' = [pc EXCEPT ![t] = "idle"]
    /\ res' = [res EXCEPT ![t] = r]
    /\ loc' = [loc EXCEPT ![t] = Blank]

\* Thread t goes on at statement s with locals l.
Goto(t, s, l) ==
    /\ pc' = [pc EXCEPT ![t] = s]
    /\ loc' = [loc EXCEPT ![t] = l]
    /\ res' = [res EXCEPT ![t] = "none"]

----
\* _call_async and the portal's event loop

OpSites == {"write", "flush", "read_all", "read_variable_block"}

\* A cleanup that gives up after its first step: _cleanup_on_error raises
\* without stopping the portal.
AfterDestroyOnly(c) == IF c = "ctor" THEN "cu_raise" ELSE "pstop_exit"

\* Where close() and _cleanup_on_error go on after the try block around
\* _destroy_async_instance (lines 94-98, 120-124).
AfterDestroy(c) == IF c = "ctor" THEN "cu_portal" ELSE "pstop_exit"

\* ... and after the try block around _stop_blocking_portal (lines 101-105, 126-130).
AfterPortalStop(c) == IF c = "ctor" THEN "cu_raise" ELSE "close_mark"

\* A facade that wraps what a read, write or flush raised in a RuntimeError.
CallRaiseWrapped(t, l, err) ==
    CASE l.site \in {"factory", "start"} -> Goto(t, "cu_async", [l EXCEPT !.exc = err])
      [] l.site = "stop" -> Goto(t, AfterDestroy(l.ctx), [l EXCEPT !.errors = Append(@, err)])
      [] OTHER -> Finish(t, "RuntimeError")

\* An exception err raised while thread t, with locals l, is inside a portal
\* call: in _create_async_instance it reaches the except clause of __init__
\* (line 53), in _destroy_async_instance the except clause around it appends
\* it to errors (lines 97-98, 122-123), in read/write/flush it reaches the caller.
CallRaise(t, l, err) ==
    CASE l.site \in {"factory", "start"} -> Goto(t, "cu_async", [l EXCEPT !.exc = err])
      [] l.site = "stop" -> Goto(t, AfterDestroy(l.ctx), [l EXCEPT !.errors = Append(@, err)])
      [] OTHER -> Finish(t, err)

\* _call_async(f) with locals l on handle h.  The argument is evaluated first:
\* self._async_factory (line 81) or a bound method of self._async_instance
\* (lines 82, 86, 260, 286, 324, 325), an AttributeError once line 87 deleted
\* the attribute.
CallEval(t, l, h) ==
    IF l.site = "factory" \/ hasAsync[h]
      THEN Goto(t, "call_submit", l)
      ELSE CallRaise(t, l, "AttributeError")

\* Line 77: self._blocking_portal_cm.call(...).  The attribute is gone after
\* line 66; a portal that is not running refuses the call with a RuntimeError;
\* otherwise the task is handed to the loop and the thread blocks for its result.
CallSubmit(t) ==
    /\ pc[t] = "call_submit"
    /\ May(t)
    /\ IF ~hasCm[hnd[t]]
         THEN CallRaise(t, loc[t], "AttributeError") /\ UNCHANGED queue
         ELSE IF portal[hnd[t]] # "running"
           THEN CallRaise(t, loc[t], "RuntimeError") /\ UNCHANGED queue
           ELSE /\ queue' = [queue EXCEPT ![hnd[t]] = Append(@, t)]
                /\ Goto(t, "call_wait", loc[t])
    /\ UNCHANGED <<hnd, op, blockExc, ops>>
    /\ UNCHANGED <<hvars, rvars, active, cvars, gvars>>
    /\ UNCHANGED dvars

\* The loop thread starts the next task: the call reaches the wrapped object.
LoopBegin(h) ==
    /\ MayLoop(h)
    /\ queue[h] # <<>>
    /\ portal[h] \in {"running", "stopping"}
    /\ queue' = [queue EXCEPT ![h] = Tail(@)]
    /\ active' = [active EXCEPT ![h] = @ \cup {Head(queue[h])}]
    /\ startCalls' = [startCalls EXCEPT ![h] =
                        IF loc[Head(queue[h])].site = "start" THEN @ + 1 ELSE @]
    /\ stopCalls' = [stopCalls EXCEPT ![h] =
                        IF loc[Head(queue[h])].site = "stop" THEN @ + 1 ELSE @]
    /\ plog' = [plog EXCEPT ![h] =
                  Append(@, <<loc[Head(queue[h])].site, loc[Head(queue[h])].arg>>)]
    /\ UNCHANGED <<exitCalls, hvars, rvars, tvars, gvars>>
    /\ UNCHANGED <<stream, total, eaten, got, calls>>

\* What a failing call of the wrapped object raises.
ErrOf(s) ==
    CASE s = "factory" -> "FactoryError"
      [] s = "start" -> "StartError"
      [] s = "stop" -> "StopError"
      [] OTHER -> "TransportError"

\* All the bytes of the blocks bs, in order.
RECURSIVE Flatten(_)
Flatten(bs) == IF bs = <<>> THEN <<>> ELSE Head(bs) \o Flatten(Tail(bs))

\* read_variable_block(n) on a stream that holds the blocks bs: up to n bytes of
\* the next block, nothing at the end of the stream.
ReadBlock(bs, n) ==
    IF bs = <<>> \/ n <= 0 THEN <<>>
    ELSE SubSeq(Head(bs), 1, IF n < Len(Head(bs)) THEN n ELSE Len(Head(bs)))

\* What the stream holds after read_variable_block(n).
AfterReadBlock(bs, n) ==
    IF bs = <<>> \/ n <= 0 THEN bs
    ELSE IF n >= Len(Head(bs)) THEN Tail(bs)
    ELSE <<SubSeq(Head(bs), n + 1, Len(Head(bs)))>> \o Tail(bs)

\* What a read task with locals l returns on a stream that holds bs.
ReadValue(l, bs) ==
    CASE l.site = "read_all" -> Flatten(bs)
      [] l.site = "read_variable_block" -> ReadBlock(bs, l.arg)
      [] OTHER -> <<>>

\* A task finishes, normally or with an exception; the result goes back to the
\* thread blocked in _call_async.  A Reader's start() connects it to a remote
\* stream; a read consumes what it returns.
LoopEnd(h, t) ==
    /\ MayLoop(h)
    /\ t \in active[h]
    /\ active' = [active EXCEPT ![h] = @ \ {t}]
    /\ \E ok \in BOOLEAN :
        /\ Goto(t, "call_ret", [loc[t] EXCEPT !.ret = IF ok THEN "ok" ELSE ErrOf(loc[t].site),
                                              !.val = IF ok THEN ReadValue(loc[t], stream[h]) ELSE <<>>])
        /\ prim' = [prim EXCEPT ![h] =
                      CASE ok /\ loc[t].site = "factory" -> "created"
                        [] ok /\ loc[t].site = "start" -> "started"
                        [] ok /\ loc[t].site = "stop" -> "stopped"
                        [] OTHER -> @]
        /\ IF ok /\ loc[t].site = "start" /\ Mode(h) = "rb"
             THEN \E c \in BasicScripts :
                    /\ stream' = [stream EXCEPT ![h] = c]
                    /\ total' = [total EXCEPT ![h] = c]
             ELSE /\ total' = total
                  /\ stream' = [stream EXCEPT ![h] =
                         CASE ok /\ loc[t].site = "read_all" -> <<>>
                           [] ok /\ loc[t].site = "read_variable_block" -> AfterReadBlock(@, loc[t].arg)
                           [] OTHER -> @]
    /\ UNCHANGED <<plog, eaten, got, calls>>
    /\ UNCHANGED <<isOpen, hasPortal, hasCm, hasAsync, portal, life>>
    /\ UNCHANGED <<hnd, op, blockExc, ops>>
    /\ UNCHANGED <<queue, rvars, cvars, gvars>>

\* A constructor that forgets to mark the object open.
OpenAfterStartNot == FALSE

\* Line 52: the value _is_open gets once _create_async_instance has returned.
OpenAfterStart == TRUE

\* _call_async returns or raises in the calling thread.
\*   factory: line 81 binds _async_instance, line 82 evaluates its start method
\*            and hands it to _call_async;
\*   start:   _create_async_instance returns, line 52 sets _is_open, __init__ returns;
\*   stop:    line 87 deletes _async_instance (an AttributeError if it is gone);
\*   read/write/flush: the call returns to the user.
CallRet(t) ==
    /\ pc[t] = "call_ret"
    /\ May(t)
    /\ LET l == loc[t]
           h == hnd[t]
       IN
       IF l.ret # "ok"
         THEN CallRaise(t, l, l.ret) /\ UNCHANGED <<hasAsync, isOpen, life, everOpen>>
         ELSE CASE l.site = "factory" ->
                    /\ hasAsync' = [hasAsync EXCEPT ![h] = TRUE]
                    /\ Goto(t, "call_submit", [l EXCEPT !.site = "start"])
                    /\ UNCHANGED <<isOpen, life, everOpen>>
                [] l.site = "start" ->
                    /\ isOpen' = [isOpen EXCEPT ![h] = OpenAfterStart]
                    /\ life' = [life EXCEPT ![h] = "live"]
                    /\ everOpen' = [everOpen EXCEPT ![h] = TRUE]
                    /\ Finish(t, "ok")
                    /\ UNCHANGED hasAsync
                [] l.site = "stop" ->
                    IF hasAsync[h]
                      THEN /\ hasAsync' = [hasAsync EXCEPT ![h] = FALSE]
                           /\ Goto(t, AfterDestroy(l.ctx), l)
                           /\ UNCHANGED <<isOpen, life, everOpen>>
                      ELSE CallRaise(t, l, "AttributeError")
                           /\ UNCHANGED <<hasAsync, isOpen, life, everOpen>>
                [] OTHER ->
                    /\ Finish(t, "ok")
                    /\ UNCHANGED <<hasAsync, isOpen, life, everOpen>>
    /\ got' = [got EXCEPT ![t] =
                 IF loc[t].ret = "ok" /\ loc[t].site \in {"read_all", "read_variable_block"}
                   THEN loc[t].val ELSE @]
    /\ eaten' = [eaten EXCEPT ![hnd[t]] =
                 IF loc[t].ret = "ok" /\ loc[t].site \in {"read_all", "read_variable_block"}
                   THEN @ \o loc[t].val ELSE @]
    /\ UNCHANGED <<plog, stream, total, calls>>
    /\ UNCHANGED <<hasPortal, hasCm, portal, prim>>
    /\ UNCHANGED <<hnd, op, blockExc, ops>>
    /\ UNCHANGED <<todo, userClosed, sweepOpen>>
    /\ UNCHANGED <<rvars, lvars, cvars>>

----
\* _SyncWrapperBase.__init__, _start_blocking_portal, _cleanup_on_error

\* An __init__ that marks the object open at once.
InitialOpenSet == TRUE

\* Line 43: self._is_open = False.
InitialOpen == FALSE

\* Lines 41-43: the object exists, _is_open = False.
CtorBegin(t, h) ==
    /\ Idle(t)
    /\ life[h] = "none"
    /\ life' = [life EXCEPT ![h] = "ctor"]
    /\ isOpen' = [isOpen EXCEPT ![h] = InitialOpen]
    /\ Issue(t, h, "ctor", 0, "none")
    /\ Goto(t, "reg_lock", [Blank EXCEPT !.ctx = "ctor"])
    /\ UNCHANGED <<hasPortal, hasCm, hasAsync, portal, prim>>
    /\ UNCHANGED <<rvars, lvars, cvars, gvars>>
    /\ UNCHANGED <<plog, stream, total, eaten, got>>

\* Line 46: with self._instances_lock (acquire).
RegLock(t) ==
    /\ pc[t] = "reg_lock"
    /\ May(t)
    /\ lock = NoProc
    /\ lock' = t
    /\ Goto(t, "reg_add", loc[t])
    /\ UNCHANGED <<instances, hnd, op, blockExc, ops>>
    /\ UNCHANGED <<hvars, lvars, cvars, gvars>>
    /\ UNCHANGED dvars

\* An __init__ that does not register the object.
RegisterNot(S, h) == S

\* Line 47: self._instances.add(self).
Register(S, h) == S \cup {h}

\* Line 47 and the release of the lock.
RegAdd(t) ==
    /\ pc[t] = "reg_add"
    /\ May(t)
    /\ instances' = Register(instances, hnd[t])
    /\ lock' = NoProc
    /\ Goto(t, "portal_start", loc[t])
    /\ UNCHANGED <<hnd, op, blockExc, ops>>
    /\ UNCHANGED <<hvars, lvars, cvars, gvars>>
    /\ UNCHANGED dvars

\* _start_blocking_portal (lines 58-61).  Line 60 binds _blocking_portal, line 61
\* enters it (starts the loop thread) and binds _blocking_portal_cm; either
\* statement may raise, and the except clause of __init__ (line 53) takes over.
\* When both succeed, line 81 hands self._async_factory to _call_async.
StartPortal(t) ==
    /\ pc[t] = "portal_start"
    /\ May(t)
    /\ \E outcome \in {"ok", "raise60", "raise61"} :
        /\ hasPortal' = [hasPortal EXCEPT ![hnd[t]] = (outcome # "raise60")]
        /\ hasCm' = [hasCm EXCEPT ![hnd[t]] = (outcome = "ok")]
        /\ portal' = [portal EXCEPT ![hnd[t]] = IF outcome = "ok" THEN "running" ELSE @]
        /\ IF outcome = "ok"
             THEN Goto(t, "call_submit", [loc[t] EXCEPT !.site = "factory"])
             ELSE Goto(t, "cu_async", [loc[t] EXCEPT !.exc = "PortalStartError"])
    /\ UNCHANGED <<isOpen, hasAsync, prim, life>>
    /\ UNCHANGED <<hnd, op, blockExc, ops>>
    /\ UNCHANGED <<rvars, lvars, cvars, gvars>>
    /\ UNCHANGED dvars

\* A cleanup that leaves the wrapped object alone.
CuStopsNever(has) == FALSE

\* Line 94: hasattr(self, "_async_instance") decides whether
\* _destroy_async_instance is tried.
CuStops(has) == has

\* Lines 94-96: if hasattr(self, "_async_instance"), _destroy_async_instance is
\* tried: line 86 evaluates self._async_instance.stop and hands it to _call_async.
CuAsync(t) ==
    /\ pc[t] = "cu_async"
    /\ May(t)
    /\ IF CuStops(hasAsync[hnd[t]])
         THEN CallEval(t, [loc[t] EXCEPT !.site = "stop"], hnd[t])
         ELSE Goto(t, "cu_portal", loc[t])
    /\ UNCHANGED <<hnd, op, blockExc, ops>>
    /\ UNCHANGED <<hvars, rvars, lvars, cvars, gvars>>
    /\ UNCHANGED dvars

\* Line 101: hasattr(self, "_blocking_portal") decides whether
\* _stop_blocking_portal is tried.
CuPortal(t) ==
    /\ pc[t] = "cu_portal"
    /\ May(t)
    /\ Goto(t, IF hasPortal[hnd[t]] THEN "pstop_exit" ELSE "cu_raise", loc[t])
    /\ UNCHANGED <<hnd, op, blockExc, ops>>
    /\ UNCHANGED <<hvars, rvars, lvars, cvars, gvars>>
    /\ UNCHANGED dvars

\* A constructor that lets the first cleanup error replace the exception it
\* caught.
CtorRaisedCleanup(e, errs) == IF errs # <<>> THEN errs[1] ELSE e

\* Lines 107-109 log the collected errors errs; line 56 re-raises the exception
\* e the except clause caught.
CtorRaised(e, errs) == e

\* __init__ raises; the caller never gets a reference to the object.
CuRaise(t) ==
    /\ pc[t] = "cu_raise"
    /\ May(t)
    /\ Finish(t, CtorRaised(loc[t].exc, loc[t].errors))
    /\ life' = [life EXCEPT ![hnd[t]] = "failed"]
    /\ UNCHANGED <<isOpen, hasPortal, hasCm, hasAsync, portal, prim>>
    /\ UNCHANGED <<hnd, op, blockExc, ops>>
    /\ UNCHANGED <<rvars, lvars, cvars, gvars>>
    /\ UNCHANGED dvars

----
\* _stop_blocking_portal

\* Line 65: self._blocking_portal.__exit__(None, None, None).
\*   attribute deleted (line 67)          -> AttributeError;
\*   loop running                         -> the loop is told to stop, the thread
\*                                           goes on to join it;
\*   loop never started (line 61 raised)
\*   or already stopped                   -> the exhausted context manager returns;
\*   another thread is inside __exit__    -> ValueError (generator already executing).
PStopExit(t) ==
    /\ pc[t] = "pstop_exit"
    /\ May(t)
    /\ LET h == hnd[t]
           l == loc[t]
       IN
       IF ~hasPortal[h]
         THEN /\ Goto(t, AfterPortalStop(l.ctx), [l EXCEPT !.errors = Append(@, "AttributeError")])
              /\ UNCHANGED <<portal, exitCalls>>
         ELSE CASE portal[h] = "running" ->
                    /\ portal' = [portal EXCEPT ![h] = "stopping"]
                    /\ exitCalls' = [exitCalls EXCEPT ![h] = @ + 1]
                    /\ Goto(t, "pstop_join", l)
                [] portal[h] = "stopping" ->
                    /\ Goto(t, AfterPortalStop(l.ctx), [l EXCEPT !.errors = Append(@, "ValueError")])
                    /\ UNCHANGED <<portal, exitCalls>>
                [] OTHER ->
                    /\ Goto(t, "pstop_del", l)
                    /\ UNCHANGED <<portal, exitCalls>>
    /\ UNCHANGED <<isOpen, hasPortal, hasCm, hasAsync, prim, life>>
    /\ UNCHANGED <<hnd, op, blockExc, ops>>
    /\ UNCHANGED <<startCalls, stopCalls, rvars, lvars, gvars>>
    /\ UNCHANGED dvars

\* __exit__ waits for the tasks still on the loop and joins the loop thread; it
\* returns, or raises after the join.
PStopJoin(t) ==
    /\ pc[t] = "pstop_join"
    /\ May(t)
    /\ queue[hnd[t]] = <<>> /\ active[hnd[t]] = {}
    /\ portal' = [portal EXCEPT ![hnd[t]] = "stopped"]
    /\ \E ok \in BOOLEAN :
        IF ok
          THEN Goto(t, "pstop_del", loc[t])
          ELSE Goto(t, AfterPortalStop(loc[t].ctx),
                    [loc[t] EXCEPT !.errors = Append(@, "PortalStopError")])
    /\ UNCHANGED <<isOpen, hasPortal, hasCm, hasAsync, prim, life>>
    /\ UNCHANGED <<hnd, op, blockExc, ops>>
    /\ UNCHANGED <<rvars, lvars, cvars, gvars>>
    /\ UNCHANGED dvars

\* Lines 66-67: del self._blocking_portal_cm; del self._blocking_portal.  A
\* del of a missing attribute raises AttributeError and skips what follows.
PStopDel(t) ==
    /\ pc[t] = "pstop_del"
    /\ May(t)
    /\ LET h == hnd[t] IN
        /\ hasCm' = [hasCm EXCEPT ![h] = FALSE]
        /\ hasPortal' = [hasPortal EXCEPT ![h] = IF hasCm[h] THEN FALSE ELSE @]
        /\ Goto(t, AfterPortalStop(loc[t].ctx),
                IF hasCm[h] /\ hasPortal[h]
                  THEN loc[t]
                  ELSE [loc[t] EXCEPT !.errors = Append(@, "AttributeError")])
    /\ UNCHANGED <<isOpen, hasAsync, portal, prim, life>>
    /\ UNCHANGED <<hnd, op, blockExc, ops>>
    /\ UNCHANGED <<rvars, lvars, cvars, gvars>>
    /\ UNCHANGED dvars

----
\* close, __exit__, __del__

\* An __exit__ that raises the error of close() whatever the block did.
ExitResultCloseFirst(b, e) ==
    IF e # "ok" THEN e ELSE IF b = "none" THEN "ok" ELSE b

\* __exit__ (lines 163-173): what the with statement's caller observes, given
\* the exception b of the block ("none" if it raised nothing) and the outcome e
\* of close() ("ok" or the error it raised).
ExitResult(b, e) ==
    IF e # "ok"
      THEN IF b = "none" THEN e ELSE b
      ELSE IF b = "none" THEN "ok" ELSE b

\* A close() that raises the last error it collected.
CloseResultLast(errs) == IF errs # <<>> THEN errs[Len(errs)] ELSE "ok"

\* Lines 139-140: close() raises errors[0] if any error was collected.
CloseResult(errs) == IF errs # <<>> THEN errs[1] ELSE "ok"

\* A close() without the test of lines 113-114.
CloseReturnsEarlyNever(open) == FALSE

\* Lines 113-114: close() returns at once when _is_open is not set.
CloseReturnsEarly(open) == ~open

\* A __del__ that lets the error of close() out.
ReturnOutcomeDelRaises(c, b, e, old) ==
    CASE c = "user" -> e
      [] c = "exit" -> ExitResult(b, e)
      [] c = "del" -> e
      [] OTHER -> old

\* What the caller c of close() is left with when close() returned or raised
\* e: user code sees e; __exit__ applies ExitResult; __del__ (lines 181-186)
\* and the sweep (lines 200-201) log and swallow it.
ReturnOutcome(c, b, e, old) ==
    CASE c = "user" -> e
      [] c = "exit" -> ExitResult(b, e)
      [] OTHER -> old

\* close() on h, called from c, returns or raises (outcome e) to its caller;
\* the sweep goes on with its loop.
Return(t, c, h, b, e) ==
    /\ pc' = [pc EXCEPT ![t] = IF c = "sweep" THEN "sw_loop" ELSE "idle"]
    /\ loc' = [loc EXCEPT ![t] = Blank]
    /\ res' = [res EXCEPT ![t] = ReturnOutcome(c, b, e, @)]
    /\ life' = [life EXCEPT ![h] = IF c = "del" THEN "finalized" ELSE @]

\* User code calls close() on a handle it holds.
UserClose(t, h) ==
    /\ Idle(t)
    /\ life[h] = "live"
    /\ Issue(t, h, "close", 0, "none")
    /\ Goto(t, "close_check", [Blank EXCEPT !.ctx = "user"])
    /\ userClosed' = [userClosed EXCEPT ![h] = TRUE]
    /\ UNCHANGED <<plog, stream, total, eaten, got>>
    /\ UNCHANGED <<todo, everOpen, sweepOpen>>
    /\ UNCHANGED <<hvars, rvars, lvars, cvars>>

\* A with block over the handle ends, with or without an exception of the block:
\* __exit__ calls close() (line 164).
WithExit(t, h, b) ==
    /\ Idle(t)
    /\ life[h] = "live"
    /\ Issue(t, h, "with", 0, b)
    /\ Goto(t, "close_check", [Blank EXCEPT !.ctx = "exit"])
    /\ userClosed' = [userClosed EXCEPT ![h] = TRUE]
    /\ UNCHANGED <<plog, stream, total, eaten, got>>
    /\ UNCHANGED <<todo, everOpen, sweepOpen>>
    /\ UNCHANGED <<hvars, rvars, lvars, cvars>>

\* Lines 113-121 of close(): a closed handle returns at once; an open one
\* starts with an empty errors list and calls _destroy_async_instance, whose
\* line 86 evaluates self._async_instance.stop and hands it to _call_async.
CloseCheck(p) ==
    /\ pc[p] = "close_check"
    /\ May(p)
    /\ IF CloseReturnsEarly(isOpen[hnd[p]])
         THEN Return(p, loc[p].ctx, hnd[p], blockExc[p], "ok")
         ELSE /\ CallEval(p, [loc[p] EXCEPT !.site = "stop"], hnd[p])
              /\ UNCHANGED life
    /\ UNCHANGED <<isOpen, hasPortal, hasCm, hasAsync, portal, prim>>
    /\ UNCHANGED <<hnd, op, blockExc, ops>>
    /\ UNCHANGED <<rvars, lvars, cvars, gvars>>
    /\ UNCHANGED dvars

\* Line 132: self._is_open = False.
CloseMark(t) ==
    /\ pc[t] = "close_mark"
    /\ May(t)
    /\ isOpen' = [isOpen EXCEPT ![hnd[t]] = FALSE]
    /\ Goto(t, "close_lock", loc[t])
    /\ UNCHANGED <<hasPortal, hasCm, hasAsync, portal, prim, life>>
    /\ UNCHANGED <<hnd, op, blockExc, ops>>
    /\ UNCHANGED <<rvars, lvars, cvars, gvars>>
    /\ UNCHANGED dvars

\* Line 135: with self._instances_lock (acquire).
CloseLock(t) ==
    /\ pc[t] = "close_lock"
    /\ May(t)
    /\ lock = NoProc
    /\ lock' = t
    /\ Goto(t, "close_unreg", loc[t])
    /\ UNCHANGED <<instances, hnd, op, blockExc, ops>>
    /\ UNCHANGED <<hvars, lvars, cvars, gvars>>
    /\ UNCHANGED dvars

\* A close() that empties the registry.
DiscardAll(S, h) == {}

\* Line 136: self._instances.discard(self).
Discard(S, h) == S \ {h}

\* Line 136, the release of the lock, and lines 139-140.
CloseUnreg(t) ==
    /\ pc[t] = "close_unreg"
    /\ May(t)
    /\ instances' = Discard(instances, hnd[t])
    /\ lock' = NoProc
    /\ Return(t, loc[t].ctx, hnd[t], blockExc[t], CloseResult(loc[t].errors))
    /\ UNCHANGED <<isOpen, hasPortal, hasCm, hasAsync, portal, prim>>
    /\ UNCHANGED <<hnd, op, blockExc, ops>>
    /\ UNCHANGED <<lvars, cvars, gvars>>
    /\ UNCHANGED dvars

\* __del__ (lines 175-186) runs once nothing refers to the object any more:
\* user code has given up its references and is not inside a call on it, the
\* set _instances does not hold it (line 26: the set holds the objects
\* themselves) or is garbage itself, nor does the sweep's list hold it.  Line
\* 178 tests _is_open before close() is called.
Del(h) ==
    /\ May("gc")
    /\ life[h] \in {"live", "failed"}
    /\ (h \notin instances \/ op["atexit"] = "final") /\ h \notin todo
    /\ \A p \in Procs : pc[p] \in {"idle", "sw_loop", "sw_done"} \/ hnd[p] # h
    /\ pc["gc"] = "idle"
    /\ IF isOpen[h]
         THEN /\ Goto("gc", "close_check", [Blank EXCEPT !.ctx = "del"])
              /\ hnd' = [hnd EXCEPT !["gc"] = h]
              /\ life' = [life EXCEPT ![h] = "dropped"]
         ELSE /\ life' = [life EXCEPT ![h] = "finalized"]
              /\ UNCHANGED <<pc, loc, res, hnd>>
    /\ UNCHANGED <<isOpen, hasPortal, hasCm, hasAsync, portal, prim>>
    /\ UNCHANGED <<op, blockExc, ops>>
    /\ UNCHANGED <<rvars, lvars, cvars, gvars>>
    /\ UNCHANGED dvars

----
\* Writer.write, Writer.flush, Reader.read

\* A Reader whose read always forwards to read_all.
MethodOfAll(o, n) ==
    CASE o = "write" -> "write"
      [] o = "flush" -> "flush"
      [] OTHER -> "read_all"

\* A Reader whose read always forwards to read_variable_block.
MethodOfBlock(o, n) ==
    CASE o = "write" -> "write"
      [] o = "flush" -> "flush"
      [] OTHER -> "read_variable_block"

\* A Writer whose write forwards to flush.
MethodOfFlush(o, n) ==
    CASE o \in {"write", "flush"} -> "flush"
      [] o = "read" /\ n < 0 -> "read_all"
      [] OTHER -> "read_variable_block"

\* The method of the wrapped object a facade call forwards to (lines 260, 286,
\* 324, 325).
MethodOf(o, n) ==
    CASE o = "write" -> "write"
      [] o = "flush" -> "flush"
      [] o = "read" /\ n < 0 -> "read_all"
      [] OTHER -> "read_variable_block"

\* Facade calls whose guard is inverted.
NotOpenErrorInverted(open) == IF open THEN "RuntimeError" ELSE "none"

\* Facade calls without the guard.
NotOpenErrorNever(open) == "none"

\* Lines 257-258, 284-285, 316-317: the guard of write, Writer.flush and read.
NotOpenError(open) == IF open THEN "none" ELSE "RuntimeError"

\* User code calls write/flush on a Writer or read(n) on a Reader it holds.
OpCall(t, h, o, n) ==
    /\ Idle(t)
    /\ life[h] = "live"
    /\ \/ Mode(h) = "wb" /\ o = "write" /\ n \in Data
       \/ Mode(h) = "wb" /\ o = "flush" /\ n = 0
       \/ Mode(h) = "rb" /\ o = "read" /\ n \in ReadSizes
    /\ Issue(t, h, o, n, "none")
    /\ Goto(t, "op_guard", [Blank EXCEPT !.ctx = "op", !.site = MethodOf(o, n), !.arg = n])
    /\ UNCHANGED <<plog, stream, total, eaten, got>>
    /\ UNCHANGED <<hvars, rvars, lvars, cvars, gvars>>

\* A read that returns b"" without calling anything.
ReadsNothingNever(n) == FALSE

\* Line 319: size == 0.
ReadsNothing(n) == n = 0

\* The body of write, Writer.flush and read: the guard raises on a closed
\* handle; read(0) returns b"" (lines 319-321); the other calls evaluate the
\* bound method of self._async_instance and hand it to _call_async.
OpGuard(t) ==
    /\ pc[t] = "op_guard"
    /\ May(t)
    /\ IF NotOpenError(isOpen[hnd[t]]) # "none"
         THEN Finish(t, NotOpenError(isOpen[hnd[t]]))
         ELSE IF op[t] = "read" /\ ReadsNothing(loc[t].arg)
           THEN Finish(t, "ok")
           ELSE CallEval(t, loc[t], hnd[t])
    /\ got' = [got EXCEPT ![t] =
                 IF isOpen[hnd[t]] /\ op[t] = "read" /\ ReadsNothing(loc[t].arg)
                   THEN <<>> ELSE @]
    /\ UNCHANGED <<plog, stream, total, eaten, calls>>
    /\ UNCHANGED <<hnd, op, blockExc, ops>>
    /\ UNCHANGED <<hvars, rvars, lvars, cvars, gvars>>

----
\* _cleanup_all_instances (atexit)

\* The interpreter exits: the main thread has returned and the handler
\* registered at line 189 runs.  Line 192: with _instances_lock (acquire).
SweepStart ==
    /\ May("atexit")
    /\ pc["atexit"] = "idle" /\ op["atexit"] = "none"
    /\ pc["t1"] = "idle"
    /\ lock = NoProc
    /\ lock' = "atexit"
    /\ pc' = [pc EXCEPT !["atexit"] = "sw_snap"]
    /\ op' = [op EXCEPT !["atexit"] = "sweep"]
    /\ UNCHANGED <<instances, hnd, loc, res, blockExc, ops>>
    /\ UNCHANGED <<hvars, lvars, cvars, gvars>>
    /\ UNCHANGED dvars

\* A sweep that keeps _instances_lock while it closes the instances.
LockKept(p) == p

\* Lines 192-193: the with statement ends after the list is built, and the
\* lock held by p is released.
LockAfterSnap(p) == NoProc

\* Line 193 and the release of the lock.
SweepSnap ==
    /\ May("atexit")
    /\ pc["atexit"] = "sw_snap"
    /\ todo' = instances
    /\ sweepOpen' = {h \in instances : isOpen[h]}
    /\ lock' = LockAfterSnap("atexit")
    /\ pc' = [pc EXCEPT !["atexit"] = "sw_loop"]
    /\ UNCHANGED <<instances, hnd, loc, res, op, blockExc, ops>>
    /\ UNCHANGED <<everOpen, userClosed, hvars, lvars, cvars>>
    /\ UNCHANGED dvars

\* A sweep whose test is inverted.
SweepClosesNot(open) == ~open

\* Line 197: the sweep closes an instance whose _is_open is set.
SweepCloses(open) == open

\* Lines 195-199: the next instance of the list; close() is called if
\* SweepCloses says so.
SweepVisit(h) ==
    /\ May("atexit")
    /\ pc["atexit"] = "sw_loop"
    /\ h \in todo
    /\ todo' = todo \ {h}
    /\ IF SweepCloses(isOpen[h])
         THEN /\ Goto("atexit", "close_check", [Blank EXCEPT !.ctx = "sweep"])
              /\ hnd' = [hnd EXCEPT !["atexit"] = h]
         ELSE UNCHANGED <<pc, loc, res, hnd>>
    /\ UNCHANGED <<op, blockExc, ops>>
    /\ UNCHANGED <<everOpen, userClosed, sweepOpen, hvars, rvars, lvars, cvars>>
    /\ UNCHANGED dvars

\* The list is exhausted: the sweep returns.
SweepDone ==
    /\ May("atexit")
    /\ pc["atexit"] = "sw_loop"
    /\ todo = {}
    /\ pc' = [pc EXCEPT !["atexit"] = "sw_done"]
    /\ UNCHANGED <<hnd, loc, res, op, blockExc, ops>>
    /\ UNCHANGED <<hvars, rvars, lvars, cvars, gvars>>
    /\ UNCHANGED dvars

\* The handlers have run and the interpreter is finalized: the module is
\* cleared, and the class, its set _instances (line 26) and the objects the
\* set holds are garbage together.
Finalize ==
    /\ May("atexit")
    /\ pc["atexit"] = "sw_done" /\ op["atexit"] = "sweep"
    /\ op' = [op EXCEPT !["atexit"] = "final"]
    /\ UNCHANGED <<pc, hnd, loc, res, blockExc, ops>>
    /\ UNCHANGED <<hvars, rvars, lvars, cvars, gvars>>
    /\ UNCHANGED dvars

----
\* The steps of the constructors, of close, of the event loops and of the
\* garbage collector, and the steps inside a read, write or flush.
Lifecycle ==
    \/ \E t \in Threads, h \in Handles : CtorBegin(t, h)
    \/ \E t \in Threads : RegLock(t)
    \/ \E t \in Threads : RegAdd(t)
    \/ \E t \in Threads : StartPortal(t)
    \/ \E p \in Procs : CallSubmit(p)
    \/ \E h \in Handles : LoopBegin(h)
    \/ \E h \in Handles, p \in Procs : LoopEnd(h, p)
    \/ \E p \in Procs : CallRet(p)
    \/ \E t \in Threads : CuAsync(t)
    \/ \E t \in Threads : CuPortal(t)
    \/ \E t \in Threads : CuRaise(t)
    \/ \E p \in Procs : PStopExit(p)
    \/ \E p \in Procs : PStopJoin(p)
    \/ \E p \in Procs : PStopDel(p)
    \/ \E t \in Threads, h \in Handles : UserClose(t, h)
    \/ \E p \in Procs : CloseMark(p)
    \/ \E p \in Procs : CloseLock(p)
    \/ \E p \in Procs : CloseUnreg(p)
    \/ \E h \in Handles : Del(h)
    \/ \E t \in Threads : OpGuard(t)
    \/ \E p \in Procs : CloseCheck(p)

\* User code calls read, write or flush with an argument of A.
UserCalls(A) ==
    \E t \in Threads, h \in Handles, o \in {"write", "flush", "read"}, n \in A :
        OpCall(t, h, o, n)

\* A with block over a handle ends.
WithBlocks ==
    \E t \in Threads, h \in Handles, b \in BlockExcs : WithExit(t, h, b)

\* The steps of user code, of the event loops and of the garbage collector.
NextUser == Lifecycle \/ WithBlocks \/ UserCalls(BasicArgs)

\* The steps of the atexit handler.
NextSweep ==
    \/ SweepStart
    \/ SweepSnap
    \/ \E h \in Handles : SweepVisit(h)
    \/ SweepDone
    \/ Finalize

\* The program while the interpreter runs.
Spec == Init /\ [][NextUser]_vars

\* The main thread alone reads, writes, flushes and closes.
NextSeq ==
    \/ \E h \in Handles, o \in {"write", "flush", "read"}, n \in ReadSizes \cup Data :
          OpCall("t1", h, o, n)
    \/ OpGuard("t1")
    \/ CallSubmit("t1")
    \/ \E h \in Handles : LoopBegin(h)
    \/ \E h \in Handles : LoopEnd(h, "t1")
    \/ CallRet("t1")
    \/ \E h \in Handles : UserClose("t1", h)
    \/ CloseCheck("t1")
    \/ PStopExit("t1")
    \/ PStopJoin("t1")
    \/ PStopDel("t1")
    \/ CloseMark("t1")
    \/ CloseLock("t1")
    \/ CloseUnreg("t1")

\* The program run by one thread.
SpecSeq == InitSeq /\ [][NextSeq]_vars

\* The program up to and during the interpreter's exit; user code closes its
\* handles with close().
SpecExit == InitExit /\ [][Lifecycle \/ UserCalls(ExitArgs) \/ NextSweep]_vars

----
\* Properties

\* C1: once a constructor has raised, the registry holds no entry for the
\* handle it was constructing.
C1_FailedCtorUnregistered ==
    \A h \in Handles : life[h] = "failed" => h \notin instances

\* C2: in every reachable state, every handle in the registry has its open
\* flag set.
C2_RegisteredAreOpen ==
    \A h \in instances : isOpen[h]

\* C3: a handle user code never closes is force-closed exactly once: stop() of
\* its wrapped object is never called twice, and it has been called once when
\* the sweep that found the handle open has returned.
C3_ForceClosedOnce ==
    \A h \in Handles :
        (everOpen[h] /\ ~userClosed[h]) =>
            /\ stopCalls[h] <= 1
            /\ (pc["atexit"] = "sw_done" /\ h \in sweepOpen) => stopCalls[h] = 1

\* The sweep has closed a handle nobody closed, and the object has been
\* reclaimed since.
C3_Witness ==
    /\ pc["atexit"] = "sw_done"
    /\ \E h \in sweepOpen :
        ~userClosed[h] /\ stopCalls[h] = 1 /\ ~isOpen[h] /\ life[h] = "finalized"

\* C4: at any instant at most one call is executing on the event loop of a
\* handle.
C4_OneAtATime ==
    \A h \in Handles : Cardinality(active[h]) <= 1

C6_CloseIdempotent ==
    [][\A t \in Threads :
          (pc[t] = "close_check" /\ pc'[t] # "close_check" /\ ~isOpen[hnd[t]]) =>
              /\ pc'[t] = "idle"
              /\ (loc[t].ctx = "user" => res'[t] = "ok")
              /\ UNCHANGED <<hvars, rvars, lvars, cvars>>]_vars

\* The main thread alone has called close() twice on the Writer: the first
\* call raised (stop() failed, so _async_instance is still bound), the second
\* returned.
C6_Witness ==
    /\ op["t2"] = "none" /\ ops = 0 /\ hnd["t1"] = "h1"
    /\ pc["t1"] = "idle" /\ op["t1"] = "close" /\ res["t1"] = "ok"
    /\ ~isOpen["h1"] /\ hasAsync["h1"] /\ stopCalls["h1"] = 1

\* C7: when close() on an open handle returns or raises, stop() of the wrapped
\* object and the shutdown of the portal have both been attempted, and what it
\* raises is the first error collected (nothing if none was).
C7_CloseCollectsThenRaises ==
    [][\A t \in Threads :
          (pc[t] = "close_unreg" /\ pc'[t] = "idle" /\ loc[t].ctx = "user") =>
              /\ res'[t] = IF loc[t].errors = <<>> THEN "ok" ELSE loc[t].errors[1]
              /\ stopCalls[hnd[t]] >= 1
              /\ exitCalls[hnd[t]] >= 1
              /\ portal[hnd[t]] # "running"]_vars

\* close() raised the error of stop() although the shutdown of the portal
\* failed as well (both attributes are still bound).
C7_Witness ==
    /\ op["t2"] = "none" /\ hnd["t1"] = "h1"
    /\ pc["t1"] = "idle" /\ op["t1"] = "close" /\ res["t1"] = "StopError"
    /\ hasAsync["h1"] /\ hasPortal["h1"] /\ portal["h1"] = "stopped"
    /\ "h1" \notin instances

\* What made the constructor of h fail, read off the state it left behind.
CtorFailure(h) ==
    IF startCalls[h] > 0 THEN "StartError"
    ELSE IF portal[h] # "none" THEN "FactoryError"
    ELSE "PortalStartError"

\* C8: a constructor that fails raises the error that made it fail, also when
\* the cleanup fails.
C8_CtorReraisesOriginal ==
    \A t \in Threads :
        (pc[t] = "idle" /\ op[t] = "ctor" /\ res[t] # "ok") =>
            res[t] = CtorFailure(hnd[t])

\* start() failed, and in the cleanup stop() and the shutdown of the portal
\* failed too.
C8_Witness ==
    \E t \in Threads :
        /\ pc[t] = "idle" /\ op[t] = "ctor" /\ res[t] = "StartError"
        /\ hasAsync[hnd[t]] /\ hasPortal[hnd[t]] /\ stopCalls[hnd[t]] = 1

\* C9: when a failed constructor has raised, the portal it started is stopped.
C9_FailedCtorPortalStopped ==
    \A h \in Handles :
        (life[h] = "failed" /\ portal[h] # "none") => portal[h] = "stopped"

\* The constructor failed in start(), and stop() raised during the cleanup.
C9_Witness ==
    \E h \in Handles :
        /\ life[h] = "failed" /\ startCalls[h] = 1 /\ stopCalls[h] = 1
        /\ hasAsync[h] /\ portal[h] = "stopped"

\* C10: leaving a with block closes the handle; an error of close() is raised
\* if the block raised nothing, and the block's exception goes on otherwise.
C10_ExitPropagation ==
    [][\A t \in Threads :
          (loc[t].ctx = "exit" /\ pc[t] # "idle" /\ pc'[t] = "idle") =>
              /\ ~isOpen'[hnd[t]]
              /\ res'[t] = IF blockExc[t] # "none" THEN blockExc[t]
                           ELSE IF loc[t].errors # <<>> THEN loc[t].errors[1]
                           ELSE "ok"]_vars

\* The block raised, close() raised too (stop() failed), and the caller sees
\* the block's exception.
C10_Witness ==
    /\ op["t2"] = "none" /\ hnd["t1"] = "h1"
    /\ pc["t1"] = "idle" /\ op["t1"] = "with"
    /\ blockExc["t1"] = "BlockError" /\ res["t1"] = "BlockError"
    /\ ~isOpen["h1"] /\ hasAsync["h1"] /\ stopCalls["h1"] = 1

\* C11: when the sweep has returned (no other thread being at work), every
\* handle it found open is closed and the registry is empty.
C11_SweepEmptiesRegistry ==
    (pc["atexit"] = "sw_done" /\ op["t2"] = "none") =>
        /\ \A h \in sweepOpen : ~isOpen[h]
        /\ instances = {}

\* The write entries of a sequence of calls.
WritesOf(log) ==
    LET IsWrite(e) == e[1] = "write" IN SelectSeq(log, IsWrite)

IsPrefix(a, b) == Len(a) <= Len(b) /\ a = SubSeq(b, 1, Len(a))

\* C12: the writes one thread issues one after the other on a handle reach the
\* wrapped object once each and in the order of the calls: what it has
\* received is always a prefix of what was issued, and all of it when the
\* thread is between two calls on an open handle.
C12_WritesInOrder ==
    \A h \in Handles :
        op["t2"] = "none" =>
            /\ IsPrefix(WritesOf(plog[h]), WritesOf(calls[h]))
            /\ (pc["t1"] = "idle" /\ isOpen[h]) =>
                   WritesOf(plog[h]) = WritesOf(calls[h])

\* Three writes of the main thread, 2 then 1 then 2, have reached the Writer's
\* wrapped object.
C12_Witness ==
    /\ pc["t1"] = "idle" /\ op["t2"] = "none" /\ isOpen["h1"]
    /\ calls["h1"] = <<<<"write", 2>>, <<"write", 1>>, <<"write", 2>>>>
    /\ plog["h1"] = <<<<"factory", 0>>, <<"start", 0>>>> \o calls["h1"]

\* C13: when a constructor returns normally, the factory has been called
\* once and start() once, start() succeeded, the portal is running, nothing
\* has been torn down, and the open flag is set.
C13_CtorSuccess ==
    [][\A t \in Threads :
          (loc[t].ctx = "ctor" /\ pc[t] # "idle" /\ pc'[t] = "idle" /\ res'[t] = "ok") =>
              /\ isOpen'[hnd[t]]
              /\ plog'[hnd[t]] = <<<<"factory", 0>>, <<"start", 0>>>>
              /\ startCalls'[hnd[t]] = 1
              /\ prim'[hnd[t]] = "started" /\ hasAsync'[hnd[t]]
              /\ portal'[hnd[t]] = "running" /\ hasPortal'[hnd[t]] /\ hasCm'[hnd[t]]
              /\ stopCalls'[hnd[t]] = 0 /\ exitCalls'[hnd[t]] = 0]_vars

\* A thread has built the Reader and nothing has been called on it since.
C13_Witness ==
    \E t \in Threads :
        /\ pc[t] = "idle" /\ op[t] = "ctor" /\ res[t] = "ok" /\ hnd[t] = "h2"
        /\ isOpen["h2"] /\ portal["h2"] = "running" /\ prim["h2"] = "started"
        /\ plog["h2"] = <<<<"factory", 0>>, <<"start", 0>>>>

\* C14: after write(d), flush(), close() on a Writer just built, its wrapped
\* object has received one write of d, one flush and then one stop, and the
\* registry does not hold the Writer.
C14_WriteFlushClose ==
    \A d \in Data :
        (op["t2"] = "none" /\ pc["t1"] = "idle"
            /\ calls["h1"] = <<<<"write", d>>, <<"flush", 0>>, <<"close", 0>>>>) =>
            /\ plog["h1"] = <<<<"factory", 0>>, <<"start", 0>>,
                              <<"write", d>>, <<"flush", 0>>, <<"stop", 0>>>>
            /\ stopCalls["h1"] = 1
            /\ ~isOpen["h1"]
            /\ "h1" \notin instances

\* write(2), flush(), close() have returned normally.
C14_Witness ==
    /\ op["t2"] = "none" /\ pc["t1"] = "idle" /\ res["t1"] = "ok"
    /\ calls["h1"] = <<<<"write", 2>>, <<"flush", 0>>, <<"close", 0>>>>
    /\ prim["h1"] = "stopped" /\ portal["h1"] = "stopped"
    /\ "h1" \notin instances

\* C15: a read, write or flush that fails inside the wrapped object raises
\* that error to the caller, and neither the failure nor its propagation
\* changes the handle: it stays open and registered, nothing is torn down.
C15_TransportFailure ==
    [][\A t \in Threads :
          /\ (pc[t] = "call_wait" /\ pc'[t] = "call_ret" /\ loc[t].ctx = "op"
                  /\ loc'[t].ret # "ok") =>
                 /\ loc'[t].ret = "TransportError"
                 /\ UNCHANGED <<hvars, rvars, cvars, plog, stream>>
          /\ (pc[t] = "call_ret" /\ pc'[t] # "call_ret" /\ loc[t].ctx = "op"
                  /\ loc[t].ret # "ok") =>
                 /\ pc'[t] = "idle"
                 /\ res'[t] = loc[t].ret
                 /\ UNCHANGED <<hvars, rvars, lvars, cvars, plog, stream>>]_vars

\* A write of the main thread has raised the wrapped object's error; the
\* Writer is open, registered and untouched.
C15_Witness ==
    /\ op["t2"] = "none" /\ hnd["t1"] = "h1"
    /\ pc["t1"] = "idle" /\ op["t1"] = "write" /\ res["t1"] = "TransportError"
    /\ isOpen["h1"] /\ "h1" \in instances
    /\ portal["h1"] = "running" /\ prim["h1"] = "started"
    /\ stopCalls["h1"] = 0 /\ exitCalls["h1"] = 0

\* C16: read(0) on an open Reader returns an empty result, hands nothing to
\* the portal, calls nothing on the wrapped object, and leaves the stream and
\* the handle as they were.
C16_ReadZero ==
    [][\A t \in Threads :
          (pc[t] = "op_guard" /\ pc'[t] # "op_guard" /\ op[t] = "read"
              /\ loc[t].arg = 0 /\ isOpen[hnd[t]]) =>
              /\ pc'[t] = "idle" /\ res'[t] = "ok" /\ got'[t] = <<>>
              /\ UNCHANGED <<hvars, rvars, lvars, cvars, plog, stream, eaten>>]_vars

\* read(0) has returned on a Reader whose stream holds data; the wrapped
\* object has seen nothing but factory and start.
C16_Witness ==
    /\ op["t2"] = "none" /\ pc["t1"] = "idle" /\ res["t1"] = "ok"
    /\ calls["h2"] = <<<<"read", 0>>>> /\ got["t1"] = <<>>
    /\ isOpen["h2"] /\ stream["h2"] # <<>> /\ stream["h2"] = total["h2"]
    /\ plog["h2"] = <<<<"factory", 0>>, <<"start", 0>>>>

\* The last call the main thread issued on h.
LastCall(h) == calls[h][Len(calls[h])]

\* C17: read(-1) returns what repeated read(n), n > 0, return up to the first
\* empty result: after a read(-1) that returned, and after a read(n) that
\* returned nothing, the reads of the handle have together returned the whole
\* stream, byte for byte.
C17_ReadAllIsRepeatedReads ==
    \A h \in Handles :
        (op["t2"] = "none" /\ pc["t1"] = "idle" /\ hnd["t1"] = h
            /\ op["t1"] = "read" /\ res["t1"] = "ok" /\ calls[h] # <<>>
            /\ (LastCall(h)[2] < 0 \/ (LastCall(h)[2] > 0 /\ got["t1"] = <<>>))) =>
            eaten[h] = Flatten(total[h])

\* Three reads of one byte have emptied a stream of two bytes; the third
\* returned nothing.
C17_Witness ==
    /\ op["t2"] = "none" /\ pc["t1"] = "idle" /\ res["t1"] = "ok"
    /\ calls["h2"] = <<<<"read", 1>>, <<"read", 1>>, <<"read", 1>>>>
    /\ got["t1"] = <<>> /\ eaten["h2"] = <<1, 2>> /\ Flatten(total["h2"]) = <<1, 2>>

\* C18: a read(size), size > 0, that returns, returns at most size bytes, and
\* nothing exactly when the earlier reads have returned the whole stream; on
\* a stream of one block of k bytes the first read(size >= k) returns the block.
C18_BoundedRead ==
    [][\A t \in Threads :
          (pc[t] = "call_ret" /\ pc'[t] = "idle" /\ op[t] = "read"
              /\ loc[t].arg > 0 /\ res'[t] = "ok") =>
              /\ Len(got'[t]) <= loc[t].arg
              /\ (got'[t] = <<>>) <=> (eaten[hnd[t]] = Flatten(total[hnd[t]]))
              /\ (Len(total[hnd[t]]) = 1 /\ eaten[hnd[t]] = <<>>
                     /\ loc[t].arg >= Len(total[hnd[t]][1])) =>
                    got'[t] = total[hnd[t]][1]]_vars

\* On a stream of one block of two bytes, read(2) has returned the block and
\* a second read(2) nothing.
C18_Witness ==
    /\ op["t2"] = "none" /\ pc["t1"] = "idle" /\ res["t1"] = "ok"
    /\ calls["h2"] = <<<<"read", 2>>, <<"read", 2>>>>
    /\ total["h2"] = <<<<1, 2>>>> /\ eaten["h2"] = <<1, 2>> /\ got["t1"] = <<>>

\* C19: when an object is reclaimed, __del__ calls close() if its open flag is
\* set, and otherwise tears nothing down; whatever close() raises, nothing is
\* raised out of __del__.
C19_DelBestEffort ==
    [][/\ \A h \in Handles :
            (life[h] \in {"live", "failed"} /\ life'[h] \notin {"live", "failed"}) =>
                IF isOpen[h]
                  THEN /\ pc'["gc"] = "close_check" /\ hnd'["gc"] = h
                       /\ loc'["gc"].ctx = "del"
                  ELSE /\ pc'["gc"] = pc["gc"]
                       /\ UNCHANGED <<instances, queue, active, plog>>
                       /\ UNCHANGED <<isOpen, hasPortal, hasCm, hasAsync, portal, prim>>
                       /\ UNCHANGED <<startCalls, stopCalls, exitCalls>>
       /\ res'["gc"] = "none"
       /\ (pc["gc"] # "idle" /\ pc'["gc"] = "idle") => ~isOpen'[hnd["gc"]]]_vars

\* A handle that was open when the interpreter was finalized has been closed
\* by __del__: stop() was called and failed, and __del__ returned.
C19_Witness ==
    /\ op["atexit"] = "final" /\ pc["gc"] = "idle" /\ res["gc"] = "none"
    /\ \E h \in Handles :
          /\ hnd["gc"] = h /\ life[h] = "finalized" /\ h \notin sweepOpen
          /\ ~userClosed[h] /\ stopCalls[h] = 1 /\ hasAsync[h] /\ ~isOpen[h]

\* C20: __init__ registers the object, then starts the portal, then calls the
\* factory, then start(), then sets the open flag.  From the portal's start on
\* the object is in the registry; the flag is clear until the last step, and
\* it goes from clear to set at most once per object, with the portal running
\* and start() having returned.
C20_CtorOrder ==
    [][/\ \A t \in Threads :
            (loc[t].ctx = "ctor" /\ pc[t] # "idle") =>
                /\ ~isOpen[hnd[t]]
                /\ pc[t] \notin {"reg_lock", "reg_add"} => hnd[t] \in instances
       /\ \A h \in Handles :
            /\ (portal[h] = "none" /\ portal'[h] # "none") =>
                  h \in instances /\ plog[h] = <<>>
            /\ plog'[h] = Append(plog[h], <<"factory", 0>>) =>
                  h \in instances /\ portal[h] = "running" /\ plog[h] = <<>>
            /\ plog'[h] = Append(plog[h], <<"start", 0>>) =>
                  /\ h \in instances /\ portal[h] = "running" /\ hasAsync[h]
                  /\ plog[h] = <<<<"factory", 0>>>>
            /\ (~isOpen[h] /\ isOpen'[h]) =>
                  /\ ~everOpen[h] /\ h \in instances
                  /\ portal[h] = "running" /\ prim[h] = "started"
                  /\ plog[h] = <<<<"factory", 0>>, <<"start", 0>>>>
                  /\ \E t \in Threads :
                        /\ hnd[t] = h /\ loc[t].ctx = "ctor"
                        /\ loc[t].site = "start" /\ loc[t].ret = "ok"]_vars

\* The main thread's first call has built the Writer: registered, portal
\* running, start() called once, flag set.
C20_Witness ==
    /\ pc["t1"] = "idle" /\ op["t1"] = "ctor" /\ res["t1"] = "ok" /\ hnd["t1"] = "h1"
    /\ ops = MaxOps - 1 /\ op["t2"] = "none"
    /\ "h1" \in instances /\ everOpen["h1"] /\ isOpen["h1"]
    /\ startCalls["h1"] = 1 /\ stopCalls["h1"] = 0

\* C21: stop() of a wrapped object is called at most once, and only on an
\* object whose start() has returned successfully.
C21_StopOnceAfterStart ==
    \A h \in Handles :
        /\ stopCalls[h] <= 1
        /\ stopCalls[h] >= 1 => everOpen[h]

\* C22: when a failed constructor raises, it raises the error that made it
\* fail, and by then stop() has been called if the factory had returned the
\* wrapped object, and the portal has been shut down if it had been started,
\* whether stop() failed or not.
C22_CleanupAttemptsAll ==
    [][\A t \in Threads :
          (pc[t] = "cu_raise" /\ pc'[t] = "idle") =>
              /\ res'[t] = loc[t].exc
              /\ prim[hnd[t]] # "none" => stopCalls[hnd[t]] = 1
              /\ portal[hnd[t]] # "none" =>
                    exitCalls[hnd[t]] = 1 /\ portal[hnd[t]] = "stopped"]_vars

\* start() failed; in the cleanup stop() failed and the portal was shut down
\* all the same.
C22_Witness ==
    \E t \in Threads :
        /\ pc[t] = "idle" /\ op[t] = "ctor" /\ res[t] = "StartError"
        /\ hasAsync[hnd[t]] /\ stopCalls[hnd[t]] = 1
        /\ exitCalls[hnd[t]] = 1 /\ portal[hnd[t]] = "stopped" /\ ~hasPortal[hnd[t]]

\* C23: _stop_blocking_portal called on a portal that it has already stopped
\* successfully returns without an error and changes nothing.
C23_PortalStopIdempotent ==
    [][\A t \in Threads :
          (pc[t] = "pstop_exit" /\ pc'[t] # "pstop_exit"
              /\ portal[hnd[t]] = "stopped" /\ ~hasPortal[hnd[t]]) =>
              /\ loc'[t].errors = loc[t].errors
              /\ pc'[t] = AfterPortalStop(loc[t].ctx)
              /\ UNCHANGED <<portal, hasPortal, hasCm, exitCalls>>]_vars

\* C24: a call handed to _call_async when the portal has been stopped fails
\* with RuntimeError, and nothing is handed to the loop.
C24_SubmitAfterStop ==
    [][\A t \in Threads :
          (pc[t] = "call_submit" /\ pc'[t] # "call_submit"
              /\ portal[hnd[t]] = "stopped") =>
              /\ UNCHANGED <<queue, active, plog>>
              /\ loc[t].site \in OpSites => res'[t] = "RuntimeError"
              /\ loc[t].site = "stop" =>
                    loc'[t].errors = Append(loc[t].errors, "RuntimeError")]_vars

\* The attributes of handle h, its portal and its wrapped object.
HState(h) ==
    <<isOpen[h], hasPortal[h], hasCm[h], hasAsync[h], portal[h], prim[h],
      queue[h], active[h], startCalls[h], stopCalls[h], exitCalls[h],
      plog[h], stream[h]>>

Closing(h) ==
    {p \in Procs : /\ hnd[p] = h
                   /\ loc[p].ctx \in {"user", "exit", "del", "sweep"}
                   /\ pc[p] \notin {"idle", "close_check", "sw_loop", "sw_done"}}

\* C26: whatever calls of close() run at the same time on a handle, stop() of
\* its wrapped object and the shutdown of its portal are each run at most
\* once, and at most one call of close() is past the test of the open flag.
C26_ConcurrentClose ==
    \A h \in Handles :
        /\ stopCalls[h] <= 1
        /\ exitCalls[h] <= 1
        /\ Cardinality(Closing(h)) <= 1

\* C27: the wrapped object receives no read, write or flush after its stop()
\* was called, and a read, write or flush returns, or raises RuntimeError or
\* the error of the transport, and nothing else.
C27_OpRacesClose ==
    /\ \A h \in Handles : \A i, j \in 1..Len(plog[h]) :
          (i < j /\ plog[h][i][1] = "stop") => plog[h][j][1] \notin OpSites
    /\ \A t \in Threads :
          (pc[t] = "idle" /\ op[t] \in {"write", "flush", "read"}) =>
              res[t] \in {"ok", "RuntimeError", "TransportError"}

\* C28: in every reachable state a handle whose open flag is set is in the
\* registry.
C28_OpenAreRegistered ==
    \A h \in Handles : isOpen[h] => h \in instances

\* The Reader has been built and is open and registered; the Writer has been
\* closed and is neither.
C28_Witness ==
    /\ isOpen["h2"] /\ "h2" \in instances /\ life["h2"] = "live"
    /\ everOpen["h1"] /\ ~isOpen["h1"] /\ "h1" \notin instances
    /\ \A t \in Threads : pc[t] = "idle"

\* C29: _instances_lock is held only around line 47, line 136 and line 193,
\* never by a thread that is inside a portal call or a portal shutdown, and the
\* thread that holds it can always go on and release it.
C29_LockScope ==
    lock # NoProc =>
        /\ lock \in Procs
        /\ pc[lock] \in {"reg_add", "close_unreg", "sw_snap"}
        /\ ENABLED (RegAdd(lock) \/ CloseUnreg(lock) \/ SweepSnap)

\* The sweep is inside close() on the Writer, waiting for stop() on the
\* Writer's loop, while a daemon thread holds the lock in the constructor of
\* the Reader.
C29_Witness ==
    /\ pc["atexit"] = "call_wait" /\ hnd["atexit"] = "h1" /\ loc["atexit"].site = "stop"
    /\ lock = "t2" /\ pc["t2"] = "reg_add" /\ hnd["t2"] = "h2"

====
